---- MODULE Spec2Model ----
(***************************************************************************)
(* Tic-tac-toe adversarial search: the state model (board, check_win,      *)
(* get_actions, result, utility), exhaustive minimax search and minimax    *)
(* search with alpha-beta pruning, as written in the two notebooks.        *)
(***************************************************************************)
EXTENDS Integers, Sequences, FiniteSets, TLC

\* ---------------------------------------------------------------- values
\* Python's None (utility of a non-terminal state, move of a terminal one).
None == 0 - 9
\* math.inf and -math.inf, outside the range of every utility.
PosInf == 2
NegInf == 0 - 2

Cells == 0 .. 8
Marks == {" ", "x", "o"}
Players == {"x", "o"}

empty_board == [i \in Cells |-> " "]

\* len(set(row)) == 1 and row[0] != ' ', for the row of cells i, j, k.
RowWins(b, i, j, k) ==
  /\ b[i] # " "
  /\ b[i] = b[j]
  /\ b[j] = b[k]

\* check_win with the test for a full board made before the lines.
check_win_draw_first(b) ==
  IF \A i \in Cells : b[i] # " " THEN "d"
  ELSE IF RowWins(b, 0, 1, 2) THEN b[0]
  ELSE IF RowWins(b, 3, 4, 5) THEN b[3]
  ELSE IF RowWins(b, 6, 7, 8) THEN b[6]
  ELSE IF RowWins(b, 0, 3, 6) THEN b[0]
  ELSE IF RowWins(b, 1, 4, 7) THEN b[1]
  ELSE IF RowWins(b, 2, 5, 8) THEN b[2]
  ELSE IF RowWins(b, 0, 4, 8) THEN b[0]
  ELSE IF RowWins(b, 2, 4, 6) THEN b[2]
  ELSE "n"

\* The loops over the rows of board, of np.transpose(board) and of diagonals,
\* unrolled in the order check_win walks them: the first uniform row decides.
check_win(b) ==
  IF RowWins(b, 0, 1, 2) THEN b[0]
  ELSE IF RowWins(b, 3, 4, 5) THEN b[3]
  ELSE IF RowWins(b, 6, 7, 8) THEN b[6]
  ELSE IF RowWins(b, 0, 3, 6) THEN b[0]
  ELSE IF RowWins(b, 1, 4, 7) THEN b[1]
  ELSE IF RowWins(b, 2, 5, 8) THEN b[2]
  ELSE IF RowWins(b, 0, 4, 8) THEN b[0]
  ELSE IF RowWins(b, 2, 4, 6) THEN b[2]
  ELSE IF \A i \in Cells : b[i] # " " THEN "d"
  ELSE "n"

other(p) == IF p = "x" THEN "o" ELSE "x"

\* The two definitions of get_actions the notebook binds in turn.
CellSeq == <<0, 1, 2, 3, 4, 5, 6, 7, 8>>

\* get_actions without the comparison with ' ': every index is returned.
get_actions_unfiltered(b) == CellSeq

get_actions_natural(b) == SelectSeq(CellSeq, LAMBDA i : b[i] = " ")

\* priority = [1,0,1, 0,2,0, 1,0,1]; the Python list is indexed from 0.
priority == <<1, 0, 1, 0, 2, 0, 1, 0, 1>>

\* The order of sorted(actions, reverse=True): the priorities left out.
TupleLess_no_priority(a1, a2) == a1 < a2

\* The order of a stable sort on the priority alone: equal priorities keep
\* the ascending order of the indices.
TupleLess_ties_ascending(a1, a2) ==
  \/ priority[a1 + 1] < priority[a2 + 1]
  \/ priority[a1 + 1] = priority[a2 + 1] /\ a1 > a2

\* Python's order on the tuples (priority, action) that zip builds.
TupleLess(a1, a2) ==
  \/ priority[a1 + 1] < priority[a2 + 1]
  \/ priority[a1 + 1] = priority[a2 + 1] /\ a1 < a2

\* sorted(zip(priority, actions), reverse=True), as an insertion sort.
RECURSIVE InsertDesc(_, _)
InsertDesc(a, s) ==
  IF s = <<>> THEN <<a>>
  ELSE IF TupleLess(Head(s), a) THEN <<a>> \o s
  ELSE <<Head(s)>> \o InsertDesc(a, Tail(s))

RECURSIVE SortedDesc(_)
SortedDesc(s) ==
  IF s = <<>> THEN <<>> ELSE InsertDesc(Head(s), SortedDesc(Tail(s)))

get_actions_priority(b) == SortedDesc(get_actions_natural(b))

get_actions(b, ord) ==
  IF ord = "priority" THEN get_actions_priority(b)
  ELSE get_actions_natural(b)

\* result: copies the state, reports an occupied cell and writes it anyway.
result(state, p, action) == [state EXCEPT ![action] = p]

IllegalMove(state, action) == state[action] # " "

\* result without state = state.copy(): the assignment reaches the caller's list.
result_in_place(state, p, action) == [state EXCEPT ![action] = p]

\* What the list handed to result as state holds once result has returned:
\* state = state.copy() rebinds the name, the assignment goes to the copy.
result_argument(state, p, action) == state

\* utility with the sign of a loss dropped.
utility_loss_as_win(state, p) ==
  LET goal == check_win(state) IN
  IF goal = p THEN 1
  ELSE IF goal = "d" THEN 0
  ELSE IF goal = other(p) THEN 1
  ELSE None

\* utility that ignores its player argument and always scores for x.
utility_for_x(state, p) ==
  LET goal == check_win(state) IN
  IF goal = "x" THEN 1
  ELSE IF goal = "d" THEN 0
  ELSE IF goal = "o" THEN 0 - 1
  ELSE None

utility(state, p) ==
  LET goal == check_win(state) IN
  IF goal = p THEN 1
  ELSE IF goal = "d" THEN 0
  ELSE IF goal = other(p) THEN 0 - 1
  ELSE None

\* ------------------------------------------------------ minimax search
\* Each call of max_value / min_value returns the pair (v, move) and the
\* number of times COUNT was incremented by it and by the calls below it.
RECURSIVE max_value(_, _, _), min_value(_, _, _)
RECURSIVE max_loop(_, _, _, _, _, _, _, _), min_loop(_, _, _, _, _, _, _, _)

\* min_value with max_value's comparison.
MinImproves_as_max(v2, v) == v2 > v

\* max_value starting from v = -1 in place of -math.inf: a move that loses
\* never replaces the initial None.
MaxImproves_from_loss(v2, v) == v2 > (IF v > 0 - 1 THEN v ELSE 0 - 1)

\* max_value with >= : a later action of equal value replaces the earlier.
MaxImproves_or_equal(v2, v) == v2 >= v

\* if v2 > v: (max_value) and if v2 < v: (min_value)
MaxImproves(v2, v) == v2 > v
MinImproves(v2, v) == v2 < v

\* The for loop of max_value from the i-th action on.
max_loop(state, p, ord, acts, i, v, move, count) ==
  IF i > Len(acts) THEN [v |-> v, move |-> move, count |-> count]
  ELSE LET r == min_value(result(state, p, acts[i]), p, ord) IN
       IF MaxImproves(r.v, v)
       THEN max_loop(state, p, ord, acts, i + 1, r.v, acts[i], count + r.count)
       ELSE max_loop(state, p, ord, acts, i + 1, v, move, count + r.count)

max_value(state, p, ord) ==
  LET u == utility(state, p) IN
  IF u # None THEN [v |-> u, move |-> None, count |-> 1]
  ELSE max_loop(state, p, ord, get_actions(state, ord), 1, NegInf, None, 1)

\* The for loop of min_value from the i-th action on.
min_loop(state, p, ord, acts, i, v, move, count) ==
  IF i > Len(acts) THEN [v |-> v, move |-> move, count |-> count]
  ELSE LET r == max_value(result(state, other(p), acts[i]), p, ord) IN
       IF MinImproves(r.v, v)
       THEN min_loop(state, p, ord, acts, i + 1, r.v, acts[i], count + r.count)
       ELSE min_loop(state, p, ord, acts, i + 1, v, move, count + r.count)

min_value(state, p, ord) ==
  LET u == utility(state, p) IN
  IF u # None THEN [v |-> u, move |-> None, count |-> 1]
  ELSE min_loop(state, p, ord, get_actions(state, ord), 1, PosInf, None, 1)

\* minimax_search without its COUNT = 0.
minimax_no_reset(count) == count

\* COUNT = 0 at the start of minimax_search; count is COUNT before the call.
minimax_reset(count) == 0

\* minimax_search with get_actions bound to ord and COUNT = count before the
\* call: the dictionary returned, and COUNT as it is left (and printed).
minimax_search(b, p, ord, count) ==
  LET r == max_value(b, p, ord) IN
  [move |-> r.move, value |-> r.v, COUNT |-> minimax_reset(count) + r.count]

\* ------------------------------------------------- alpha-beta search
RECURSIVE max_value_ab(_, _, _, _, _), min_value_ab(_, _, _, _, _)
RECURSIVE max_loop_ab(_, _, _, _, _, _, _, _, _, _)
RECURSIVE min_loop_ab(_, _, _, _, _, _, _, _, _, _)

\* Python's max and min of two numbers.
Max2(m, n) == IF m >= n THEN m ELSE n
Min2(m, n) == IF m <= n THEN m ELSE n

\* max_value_ab with >= : the last of several equal actions is kept.
MaxImprovesAB_or_equal(v2, v) == v2 >= v

\* min_value_ab with max_value_ab's comparison.
MinImprovesAB_as_max(v2, v) == v2 > v

\* if v2 > v: (max_value_ab) and if v2 < v: (min_value_ab)
MaxImprovesAB(v2, v) == v2 > v
MinImprovesAB(v2, v) == v2 < v

\* The cut-off of max_value_ab taken one step early.
BetaCut_early(v, beta) == v + 1 >= beta

\* The cut-off of min_value_ab taken one step early.
AlphaCut_early(v, alpha) == v <= alpha + 1

\* if v >= beta: return (max_value_ab) and if v <= alpha: return (min_value_ab)
BetaCut(v, beta) == v >= beta
AlphaCut(v, alpha) == v <= alpha

\* The for loop of max_value_ab from the i-th action on.
max_loop_ab(state, p, ord, acts, i, v, move, count, alpha, beta) ==
  IF i > Len(acts) THEN [v |-> v, move |-> move, count |-> count]
  ELSE LET r == min_value_ab(result(state, p, acts[i]), p, alpha, beta, ord)
           better == MaxImprovesAB(r.v, v)
           v1 == IF better THEN r.v ELSE v
           move1 == IF better THEN acts[i] ELSE move
           alpha1 == IF better THEN Max2(alpha, v1) ELSE alpha
       IN IF BetaCut(v1, beta)
          THEN [v |-> v1, move |-> move1, count |-> count + r.count]
          ELSE max_loop_ab(state, p, ord, acts, i + 1, v1, move1,
                           count + r.count, alpha1, beta)

max_value_ab(state, p, alpha, beta, ord) ==
  LET u == utility(state, p) IN
  IF u # None THEN [v |-> u, move |-> None, count |-> 1]
  ELSE max_loop_ab(state, p, ord, get_actions(state, ord), 1, NegInf, None, 1,
                   alpha, beta)

\* The for loop of min_value_ab from the i-th action on.
min_loop_ab(state, p, ord, acts, i, v, move, count, alpha, beta) ==
  IF i > Len(acts) THEN [v |-> v, move |-> move, count |-> count]
  ELSE LET r == max_value_ab(result(state, other(p), acts[i]), p, alpha, beta, ord)
           better == MinImprovesAB(r.v, v)
           v1 == IF better THEN r.v ELSE v
           move1 == IF better THEN acts[i] ELSE move
           beta1 == IF better THEN Min2(beta, v1) ELSE beta
       IN IF AlphaCut(v1, alpha)
          THEN [v |-> v1, move |-> move1, count |-> count + r.count]
          ELSE min_loop_ab(state, p, ord, acts, i + 1, v1, move1,
                           count + r.count, alpha, beta1)

min_value_ab(state, p, alpha, beta, ord) ==
  LET u == utility(state, p) IN
  IF u # None THEN [v |-> u, move |-> None, count |-> 1]
  ELSE min_loop_ab(state, p, ord, get_actions(state, ord), 1, PosInf, None, 1,
                   alpha, beta)

\* alpha_beta_search without its COUNT = 0.
alpha_beta_no_reset(count) == count

\* COUNT = 0 at the start of alpha_beta_search.
alpha_beta_reset(count) == 0

alpha_beta_search(b, p, ord, count) ==
  LET r == max_value_ab(b, p, NegInf, PosInf, ord) IN
  [move |-> r.move, value |-> r.v, COUNT |-> alpha_beta_reset(count) + r.count]

\* ------------------------------------------------------------- the agents
\* alpha_beta_player handing 'x', its default, to the search whatever the
\* symbol it is called with.
alpha_beta_player_as_x(b, p, ord, count) ==
  alpha_beta_search(b, "x", ord, count)

\* alpha_beta_player(board, player): alpha_beta_search(board, player)["move"],
\* with the COUNT the search leaves.
alpha_beta_player(b, p, ord, count) == alpha_beta_search(b, p, ord, count)

\* ----------------------------------------------- Monte-Carlo search (UCT)
\* playout(state, action, player): the utilities, seen from p, of the decided
\* boards that random play can reach once p has taken action; each
\* np.random.choice(get_actions(state)) may answer any empty cell.
RECURSIVE playout_loop(_, _, _)
playout_loop(state, p, current_player) ==
  LET u == utility(state, p) IN
  IF u # None THEN {u}
  ELSE UNION {playout_loop(result(state, current_player, a), p,
                           other(current_player)) :
                a \in {c \in Cells : state[c] = " "}}

playout(state, action, p) ==
  playout_loop(result(state, p, action), p, other(p))

\* playout writing its first move into the list it was handed.
playout_in_place(state, action, p) == [state EXCEPT ![action] = p]

\* What the list handed to playout holds afterwards: its first statement
\* rebinds state to the copy result returns, every later move goes there.
playout_argument(state, action, p) == result_argument(state, p, action)

\* math.log(t) for t = 1 .. 8 and the UCB1 values, in units of 1/10000; on
\* the counts a run can hold at once (n1 + n2 <= n_parent <= 8) these order
\* and tie exactly as the floating-point values do.
LogTable == <<0, 6931, 10986, 13863, 16094, 17918, 19459, 20794>>

RECURSIVE isqrt_between(_, _, _)
isqrt_between(x, lo, hi) ==
  IF lo = hi THEN lo
  ELSE LET mid == (lo + hi + 1) \div 2 IN
       IF mid * mid <= x THEN isqrt_between(x, mid, hi)
       ELSE isqrt_between(x, lo, mid - 1)

\* [+math.inf] * len(actions): above every finite UCB1 value.
UCB1Inf == 1000000

\* u / n + C * math.sqrt(math.log(n_parent) / n) with C = math.sqrt(2).
UCB1_value(u, n, n_parent) ==
  (u * 10000) \div n
  + isqrt_between((2 * LogTable[n_parent] * 10000) \div n, 0, 30000)

\* s.index(max(s)) of Python, counted from 1: the first position of the
\* largest element.
IndexOfMax(s) ==
  CHOOSE i \in DOMAIN s :
    /\ \A j \in DOMAIN s : s[j] <= s[i]
    /\ \A j \in 1 .. i - 1 : s[j] < s[i]

\* ------------------------------------------- the list a search was given
\* What the list handed to max_value holds when max_value returns: utility
\* and get_actions only read it, the loop hands it to result once per action.
RECURSIVE loop_argument(_, _, _, _)
loop_argument(state, p, acts, i) ==
  IF i > Len(acts) THEN state
  ELSE loop_argument(result_argument(state, p, acts[i]), p, acts, i + 1)

max_value_argument(state, p, ord) ==
  IF utility(state, p) # None THEN state
  ELSE loop_argument(state, p, get_actions(state, ord), 1)

\* The same for max_value_ab, whose loop may return before the last action:
\* result is called for the first action in every case.
max_value_ab_argument(state, p, ord) ==
  IF utility(state, p) # None THEN state
  ELSE result_argument(state, p, get_actions(state, ord)[1])

\* ---------------------------------------------------------- the state
Orderings == {"natural", "priority"}

\* In Spec the searches are run on positions with at most this many empty
\* cells; SpecOpening runs them on the empty board.
MaxSearchEmpty == 5

VARIABLES
  board,     \* the board of the game being played (play) or set up (a test cell)
  player,    \* the symbol on move
  ordering,  \* which definition of get_actions is bound
  COUNT,     \* the global node counter
  mm,        \* <<>>, or <<r>> with r what minimax_search returned and printed
  ab,        \* <<>>, or <<r>> with r what alpha_beta_search returned and printed
  stdout,    \* the diagnostic the last call of result printed, "" if none
  raised,    \* the exception the last call raised, "none" if it returned
  passed,    \* the list a caller handed to result and still holds, <<>> if none
  uct,       \* <<>>, or <<f>> with f the locals of the running UCT_depth1 call
  agent,     \* the symbol alpha_beta_player plays in play, "none" outside play
  results,   \* the tally of play
  po         \* <<>>, or <<f>> with f the locals of the running playout call

vars ==
  <<board, player, ordering, COUNT, mm, ab, stdout, raised,
    passed, uct, agent, results, po>>

\* What the single-engine specifications leave alone.
play_vars == <<agent, results>>

IllegalMsg == "Error: Illegal move!"

Empties(b) == Cardinality({i \in Cells : b[i] = " "})

Init ==
  /\ board = empty_board
  /\ player = "x"
  /\ ordering \in Orderings
  /\ COUNT = 0
  /\ mm = <<>>
  /\ ab = <<>>
  /\ stdout = ""
  /\ raised = "none"
  /\ passed = <<>>
  /\ uct = <<>>
  /\ agent = "none"
  /\ results = [w \in {"x", "o", "d"} |-> 0]
  /\ po = <<>>

\* board = result(board, player, a), the call play makes with the action a
\* of its agent (or any caller with any cell): the copy replaces the board,
\* an occupied cell is reported on stdout and written all the same.
ResultCall(p, a) ==
  /\ board' = result(board, p, a)
  /\ stdout' = IF IllegalMove(board, a) THEN IllegalMsg ELSE ""
  /\ raised' = "none"

\* One turn of play's loop with an agent that answers one of get_actions:
\* the symbol switches unless the game is over.  Positions are set up
\* before any search is run on them.
Move ==
  /\ mm = <<>> /\ ab = <<>> /\ uct = <<>> /\ po = <<>>
  /\ agent = "none"
  /\ check_win(board) = "n"
  /\ \E a \in Cells :
       /\ board[a] = " "
       /\ ResultCall(player, a)
       /\ player' = IF check_win(result(board, player, a)) # "n"
                    THEN player ELSE other(player)
  /\ passed' = <<>>
  /\ UNCHANGED <<po, ordering, COUNT, mm, ab, uct, play_vars>>

\* alpha_beta_search(board, player): COUNT is reset, the search runs, the
\* count is printed and the dictionary returned.
AlphaBetaCall ==
  /\ \E r \in {alpha_beta_search(board, player, ordering, COUNT)} :
       /\ COUNT' = r.COUNT
       /\ ab' = <<[move |-> r.move, value |-> r.value, nodes |-> r.COUNT]>>
  /\ board' = max_value_ab_argument(board, player, ordering)
  /\ raised' = "none"
  /\ UNCHANGED <<po, player, ordering, mm, stdout, passed, uct, play_vars>>

\* minimax_search(board, player).
MinimaxCall ==
  /\ \E r \in {minimax_search(board, player, ordering, COUNT)} :
       /\ COUNT' = r.COUNT
       /\ mm' = <<[move |-> r.move, value |-> r.value, nodes |-> r.COUNT]>>
  /\ board' = max_value_argument(board, player, ordering)
  /\ raised' = "none"
  /\ UNCHANGED <<po, player, ordering, ab, stdout, passed, uct, play_vars>>

\* Each search is run once on a position, in either order.
AlphaBetaSearch ==
  /\ Empties(board) <= MaxSearchEmpty
  /\ ab = <<>> /\ uct = <<>>
  /\ AlphaBetaCall
MinimaxSearch ==
  /\ Empties(board) <= MaxSearchEmpty
  /\ mm = <<>> /\ uct = <<>>
  /\ MinimaxCall

Next == Move \/ AlphaBetaSearch \/ MinimaxSearch

Spec == Init /\ [][Next]_vars

\* The opening position: alpha_beta_search, then minimax_search.
AlphaBetaOpening == board = empty_board /\ ab = <<>> /\ mm = <<>> /\ AlphaBetaCall
MinimaxOpening == board = empty_board /\ ab # <<>> /\ mm = <<>> /\ MinimaxCall

NextOpening == Move \/ AlphaBetaOpening \/ MinimaxOpening

SpecOpening == Init /\ [][NextOpening]_vars

\* The searches on the small positions and on the opening position.
NextSearches ==
  Move \/ AlphaBetaSearch \/ MinimaxSearch \/ AlphaBetaOpening \/ MinimaxOpening

SpecSearches == Init /\ [][NextSearches]_vars

\* new = result(board, p, a) by a caller that keeps the list it handed in,
\* with any symbol and any cell, occupied or not.
ApplyMove ==
  /\ \E p \in Players, a \in Cells :
       /\ ResultCall(p, a)
       /\ passed' = <<result_argument(board, p, a)>>
  /\ UNCHANGED <<po, player, ordering, COUNT, mm, ab, uct, play_vars>>

NextApply == ApplyMove

SpecApply == Init /\ [][NextApply]_vars

\* ------------------------------------------------------------ UCT_depth1
\* UCT_depth1(board, N, player) is run on positions with at most MaxUCTEmpty
\* empty cells, with a budget N from -1 to MaxBudget.
\* The selection taking the last of the largest scores.
select_last(UCB1) ==
  CHOOSE i \in DOMAIN UCB1 :
    /\ \A j \in DOMAIN UCB1 : UCB1[j] <= UCB1[i]
    /\ \A j \in i + 1 .. Len(UCB1) : UCB1[j] < UCB1[i]

\* action_id = UCB1.index(max(UCB1))
select(UCB1) == IndexOfMax(UCB1)

\* The score refreshed for no action, and for every action.
Recomputes_never(visits) == FALSE
Recomputes_always(visits) == TRUE

\* if n[action_id] > 0: the score of the action is recomputed.
Recomputes(visits) == visits > 0

\* What the recomputation raises: u / n with n = 0 is a ZeroDivisionError,
\* math.log(n_parent) with n_parent <= 0 a ValueError; the first action
\* recomputed that hits one of them, in range(len(actions)) order, decides.
UCB1_fault(visits, total) ==
  LET F == {j \in DOMAIN visits :
              Recomputes(visits[j]) /\ (visits[j] = 0 \/ total <= 0)}
  IN IF F = {} THEN "none"
     ELSE LET j == CHOOSE k \in F : \A l \in F : k <= l
          IN IF visits[j] = 0 THEN "ZeroDivisionError"
             ELSE "ValueError: math domain error"

\* The action with the highest mean utility among those played.
best_by_mean(actions, totals, visits) ==
  IF \A j \in DOMAIN actions : visits[j] = 0 THEN actions[1]
  ELSE LET k == CHOOSE i \in DOMAIN actions :
                  /\ visits[i] > 0
                  /\ \A j \in DOMAIN actions :
                       visits[j] > 0 =>
                         totals[j] * visits[i] <= totals[i] * visits[j]
       IN actions[k]

\* action = actions[n.index(max(n))]; the totals u take no part.
best_action(actions, totals, visits) == actions[IndexOfMax(visits)]

MaxUCTEmpty == 3
MaxBudget == 4

Zeros(k) == [j \in 1 .. k |-> 0]

\* The call: the locals before the loop.  The notebook of UCT_depth1 binds
\* the natural get_actions only.
UCTCall ==
  /\ uct = <<>> /\ mm = <<>> /\ ab = <<>>
  /\ agent = "none"
  /\ ordering = "natural"
  /\ Empties(board) <= MaxUCTEmpty
  /\ \E N \in (0 - 1) .. MaxBudget :
       LET actions == get_actions_natural(board) IN
       uct' = <<[pc |-> "loop", N |-> N, player |-> player,
                 actions |-> actions,
                 u |-> Zeros(Len(actions)), n |-> Zeros(Len(actions)),
                 n_parent |-> 0,
                 UCB1 |-> [j \in 1 .. Len(actions) |-> UCB1Inf],
                 i |-> 0, action |-> None]>>
  /\ raised' = "none"
  /\ UNCHANGED <<po, board, player, ordering, COUNT, mm, ab, stdout, passed,
                 play_vars>>

\* One iteration of for i in range(N): select, simulate, back-propagate.
\* max(UCB1) of an empty list raises ValueError.
UCTIterate ==
  /\ uct # <<>>
  /\ LET f == uct[1] IN
     /\ f.pc = "loop"
     /\ f.i < f.N
     /\ IF f.actions = <<>>
        THEN /\ uct' = <<[f EXCEPT !.pc = "raised"]>>
             /\ raised' = "ValueError"
             /\ board' = board
        ELSE LET action_id == select(f.UCB1)
                 n1 == [f.n EXCEPT ![action_id] = @ + 1]
                 n_parent1 == f.n_parent + 1
                 fault == UCB1_fault(n1, n_parent1)
             IN
             /\ \E p \in playout(board, f.actions[action_id], f.player) :
                  LET u1 == [f.u EXCEPT ![action_id] = @ + p] IN
                  IF fault # "none"
                  THEN uct' = <<[f EXCEPT
                         !.pc = "raised",
                         !.u = u1, !.n = n1, !.n_parent = n_parent1]>>
                  ELSE uct' = <<[f EXCEPT
                         !.u = u1, !.n = n1, !.n_parent = n_parent1,
                         !.UCB1 = [j \in DOMAIN f.UCB1 |->
                                     IF Recomputes(n1[j])
                                     THEN UCB1_value(u1[j], n1[j], n_parent1)
                                     ELSE f.UCB1[j]],
                         !.i = f.i + 1]>>
             /\ board' = playout_argument(board, f.actions[action_id], f.player)
             /\ raised' = fault
  /\ UNCHANGED <<po, player, ordering, COUNT, mm, ab, stdout, passed, play_vars>>

\* After the loop: action = actions[n.index(max(n))] is printed and returned;
\* max(n) of an empty list raises ValueError.
UCTReturn ==
  /\ uct # <<>>
  /\ LET f == uct[1] IN
     /\ f.pc = "loop"
     /\ f.i >= f.N
     /\ IF f.actions = <<>>
        THEN /\ uct' = <<[f EXCEPT !.pc = "raised"]>>
             /\ raised' = "ValueError"
        ELSE /\ uct' = <<[f EXCEPT !.pc = "returned",
                                   !.action = best_action(f.actions, f.u, f.n)]>>
             /\ raised' = "none"
  /\ UNCHANGED <<po, board, player, ordering, COUNT, mm, ab, stdout, passed,
                 play_vars>>

NextUCT == Move \/ UCTCall \/ UCTIterate \/ UCTReturn

SpecUCT == Init /\ [][NextUCT]_vars

\* ----------------------------------------------------------------- playout
MaxPlayoutEmpty == 4

\* The playout handing every move to the same symbol.
playout_no_switch(current_player) == current_player

\* current_player = other(current_player), the last statement of the loop.
playout_switch(current_player) == other(current_player)

\* The call and the two statements before the loop: state = result(state,
\* player, action), current_player = other(player).  marks lists the symbols
\* written so far, start keeps the board the caller handed over.
PlayoutCall ==
  /\ po = <<>> /\ uct = <<>> /\ mm = <<>> /\ ab = <<>>
  /\ agent = "none"
  /\ ordering = "natural"
  /\ Empties(board) <= MaxPlayoutEmpty
  /\ \E action \in Cells, p \in Players :
       /\ board[action] = " "
       /\ po' = <<[pc |-> "loop", start |-> board, action |-> action,
                   player |-> p, state |-> result(board, p, action),
                   current_player |-> other(p), marks |-> <<p>>,
                   u |-> None]>>
       /\ board' = playout_argument(board, action, p)
  /\ raised' = "none"
  /\ UNCHANGED <<player, ordering, COUNT, mm, ab, stdout, passed, uct,
                 play_vars>>

\* One pass of while(True) on an undecided state: a = np.random.choice(
\* get_actions(state)) (ValueError on an empty list), state = result(state,
\* current_player, a), then the switch.
PlayoutMove ==
  /\ po # <<>>
  /\ LET f == po[1] IN
     /\ f.pc = "loop"
     /\ utility(f.state, f.player) = None
     /\ IF get_actions_natural(f.state) = <<>>
        THEN /\ po' = <<[f EXCEPT !.pc = "raised"]>>
             /\ raised' = "ValueError"
        ELSE /\ \E a \in {c \in Cells : f.state[c] = " "} :
                  po' = <<[f EXCEPT
                     !.state = result(f.state, f.current_player, a),
                     !.marks = Append(f.marks, f.current_player),
                     !.current_player = playout_switch(f.current_player)]>>
             /\ raised' = "none"
  /\ UNCHANGED <<board, player, ordering, COUNT, mm, ab, stdout, passed, uct,
                 play_vars>>

\* u = utility(state, player); if u is not None: return u
PlayoutReturn ==
  /\ po # <<>>
  /\ LET f == po[1] IN
     /\ f.pc = "loop"
     /\ utility(f.state, f.player) # None
     /\ po' = <<[f EXCEPT !.pc = "returned",
                          !.u = utility(f.state, f.player)]>>
  /\ UNCHANGED <<board, player, ordering, COUNT, mm, ab, stdout, raised,
                 passed, uct, play_vars>>

NextPlayout == Move \/ PlayoutCall \/ PlayoutMove \/ PlayoutReturn

\* The loop of playout is sequential code: while it has a statement to
\* execute, it executes it.
SpecPlayout ==
  Init /\ [][NextPlayout]_vars /\ WF_vars(PlayoutMove \/ PlayoutReturn)

\* The three engines, each run on positions set up by legal play.
NextEngines ==
  Move \/ AlphaBetaSearch \/ MinimaxSearch \/ UCTCall \/ UCTIterate \/ UCTReturn

SpecEngines == Init /\ [][NextEngines]_vars

\* ------------------------------------------------------------------ play
\* play(x, o, N) with alpha_beta_player as one of the two agent functions and
\* an agent that answers any empty cell as the other; N is at most MaxGames.
MaxGames == 2

GamesPlayed == results["x"] + results["o"] + results["d"]

InitPlay ==
  /\ board = empty_board
  /\ player = "x"
  /\ ordering \in Orderings
  /\ COUNT = 0
  /\ mm = <<>>
  /\ ab = <<>>
  /\ stdout = ""
  /\ raised = "none"
  /\ passed = <<>>
  /\ uct = <<>>
  /\ agent \in Players
  /\ results = [w \in {"x", "o", "d"} |-> 0]
  /\ po = <<>>

\* The rest of a turn once the agent has answered a: the move is made, a
\* decided game is tallied (and the loop left), else the players switch.
PlayTurn(a) ==
  /\ ResultCall(player, a)
  /\ LET win == check_win(result(board, player, a)) IN
       IF win # "n"
       THEN /\ results' = [results EXCEPT ![win] = @ + 1]
            /\ player' = player
       ELSE /\ results' = results
            /\ player' = other(player)
  /\ passed' = <<>>
  /\ UNCHANGED <<po, ordering, mm, ab, uct, agent>>

\* A turn of alpha_beta_player.
AgentTurn ==
  /\ agent = player
  /\ check_win(board) = "n"
  /\ \E r \in {alpha_beta_player(board, player, ordering, COUNT)} :
       /\ COUNT' = r.COUNT
       /\ PlayTurn(r.move)

\* A turn of the other agent: any of get_actions(board).
OpponentTurn ==
  /\ agent = other(player)
  /\ check_win(board) = "n"
  /\ \E a \in Cells :
       /\ board[a] = " "
       /\ PlayTurn(a)
  /\ COUNT' = COUNT

\* The next iteration of for i in range(N).
NewGame ==
  /\ agent \in Players
  /\ check_win(board) # "n"
  /\ GamesPlayed < MaxGames
  /\ board' = empty_board
  /\ player' = "x"
  /\ UNCHANGED <<po, ordering, COUNT, mm, ab, stdout, raised, passed, uct, play_vars>>

NextPlay == AgentTurn \/ OpponentTurn \/ NewGame

SpecPlay == InitPlay /\ [][NextPlay]_vars

\* ------------------------------------------- reference: backward induction
\* The game value of every position, computed layer by layer from the full
\* boards back to the empty one, independently of the searches above.
CountOf(b, m) == Cardinality({i \in Cells : b[i] = m})

\* Boards on which x has moved as often as o, or once more.
Positions ==
  {b \in [Cells -> Marks] : CountOf(b, "x") - CountOf(b, "o") \in {0, 1}}

Layer(k) == {b \in Positions : Empties(b) = 9 - k}

ToMove(b) == IF CountOf(b, "x") = CountOf(b, "o") THEN "x" ELSE "o"

\* The value of a decided position, seen from x.
XValue(b) ==
  CASE check_win(b) = "x" -> 1
    [] check_win(b) = "o" -> 0 - 1
    [] OTHER -> 0

SetMax(S) == CHOOSE m \in S : \A n \in S : n <= m
SetMin(S) == CHOOSE m \in S : \A n \in S : m <= n

\* A board as a number in base 3, and back.
Digit(m) == CASE m = " " -> 0 [] m = "x" -> 1 [] OTHER -> 2
MarkOf(d) == CASE d = 0 -> " " [] d = 1 -> "x" [] OTHER -> "o"
Pow3 == <<1, 3, 9, 27, 81, 243, 729, 2187, 6561>>
Code(b) ==
  Digit(b[0]) + 3 * Digit(b[1]) + 9 * Digit(b[2]) + 27 * Digit(b[3])
  + 81 * Digit(b[4]) + 243 * Digit(b[5]) + 729 * Digit(b[6])
  + 2187 * Digit(b[7]) + 6561 * Digit(b[8])
Decode(c) == [i \in Cells |-> MarkOf((c \div Pow3[i + 1]) % 3)]

\* The values, seen from x, of the positions with at least k marks: x's
\* moves maximise, o's moves minimise.
RECURSIVE ValueTable(_)
ValueTable(k) ==
  IF k = 9 THEN [c \in {Code(b) : b \in Layer(9)} |-> XValue(Decode(c))]
  ELSE LET deeper == ValueTable(k + 1)
           next(b) == {deeper[Code([b EXCEPT ![a] = ToMove(b)])] :
                         a \in {i \in Cells : b[i] = " "}}
           value(b) == IF check_win(b) # "n" THEN XValue(b)
                       ELSE IF ToMove(b) = "x" THEN SetMax(next(b))
                       ELSE SetMin(next(b))
       IN [c \in {Code(b) : b \in Layer(k)} |-> value(Decode(c))] @@ deeper

GameValue == ValueTable(0)

\* The game value of position b seen from player p.
ValueFor(b, p) == IF p = "x" THEN GameValue[Code(b)] ELSE 0 - GameValue[Code(b)]

\* The number of nodes of the game tree below every position, the root
\* counted: 1 on a decided board, else 1 plus the trees of the successors.
RECURSIVE ChildSum(_, _, _)
ChildSum(tbl, b, i) ==
  IF i > 8 THEN 0
  ELSE (IF b[i] = " " THEN tbl[Code([b EXCEPT ![i] = ToMove(b)])] ELSE 0)
       + ChildSum(tbl, b, i + 1)

RECURSIVE NodeTable(_)
NodeTable(k) ==
  IF k = 9 THEN [c \in {Code(b) : b \in Layer(9)} |-> 1]
  ELSE LET deeper == NodeTable(k + 1)
           size(b) == IF check_win(b) # "n" THEN 1
                      ELSE 1 + ChildSum(deeper, b, 0)
       IN  [c \in {Code(b) : b \in Layer(k)} |-> size(Decode(c))] @@ deeper

TreeSize == NodeTable(0)

Terminal(b) == check_win(b) # "n"

\* --------------------------------------------------------------- claims
\* C1: on every position reached by alternating legal play, with the side to
\* move as player, alpha_beta_search returns the value minimax_search
\* returns, under the natural and under the priority ordering of get_actions.
C1_SameValue ==
  (mm # <<>> /\ ab # <<>>) => ab[1].value = mm[1].value

\* Both searches have run on an undecided position and alpha-beta pruned.
C1_Witness ==
  /\ mm # <<>> /\ ab # <<>>
  /\ ~Terminal(board)
  /\ ordering = "priority"
  /\ ab[1].nodes < mm[1].nodes

\* C2: on every undecided position, the value minimax_search returns is the
\* game value obtained by backward induction (seen from player), and the
\* position reached by the returned move has that same value.
C2_MinimaxOptimal ==
  (mm # <<>> /\ ~Terminal(board)) =>
     /\ mm[1].value = ValueFor(board, player)
     /\ mm[1].move \in Cells
     /\ board[mm[1].move] = " "
     /\ ValueFor(result(board, player, mm[1].move), player) = mm[1].value

\* minimax_search has run for o on a position o loses against best play.
C2_Witness ==
  /\ mm # <<>>
  /\ ~Terminal(board)
  /\ player = "o"
  /\ Empties(board) >= 4
  /\ mm[1].value = 0 - 1

\* The two positions of the notebook's tests, x on move.
Win8Board ==
  [empty_board EXCEPT ![0] = "x", ![1] = "o", ![3] = "o", ![4] = "x"]
Draw7Board ==
  [empty_board EXCEPT ![0] = "x", ![1] = "o", ![2] = "x", ![4] = "o"]

\* What the searches that have run returned.
Returned == {mm[i] : i \in DOMAIN mm} \cup {ab[i] : i \in DOMAIN ab}

\* C3: from [x,o,_, o,x,_, _,_,_] with x on move, minimax_search and
\* alpha_beta_search return move 8 and value 1 under both orderings.
C3_Move8 ==
  (board = Win8Board /\ player = "x") =>
     \A r \in Returned : r.move = 8 /\ r.value = 1

\* C4: from [x,o,x, _,o,_, _,_,_] with x on move, minimax_search and
\* alpha_beta_search return move 7 and value 0 under both orderings.
C4_Move7 ==
  (board = Draw7Board /\ player = "x") =>
     \A r \in Returned : r.move = 7 /\ r.value = 0

\* Both searches have run on that position under the natural ordering.
C4_Witness ==
  /\ board = Draw7Board /\ player = "x"
  /\ mm # <<>> /\ ab # <<>>
  /\ ordering = "natural"

\* C5: from the empty board with x on move, both searches return value 0
\* under both orderings, and the returned move leads to a position whose
\* game value is 0 as well.
C5_EmptyBoardDraw ==
  board = empty_board =>
     \A r \in Returned :
        /\ r.value = 0
        /\ r.move \in Cells
        /\ ValueFor(result(board, "x", r.move), "x") = 0

\* Both searches have run on the empty board.
C5_Witness ==
  /\ board = empty_board
  /\ mm # <<>> /\ ab # <<>>
  /\ ordering = "priority"

\* C6 as stated: from the empty board both searches return the centre under
\* both orderings.
C6_Centre ==
  board = empty_board => \A r \in Returned : r.move = 4

\* C6 as it holds: from the empty board both searches return the centre, 4,
\* under the priority ordering and the corner 0 under the natural ordering.
C6_FirstOfOrdering ==
  board = empty_board =>
     \A r \in Returned : r.move = IF ordering = "priority" THEN 4 ELSE 0

\* minimax_search has returned from the empty board under the natural ordering.
C6_Witness ==
  /\ board = empty_board
  /\ ordering = "natural"
  /\ mm # <<>>
  /\ mm[1].move = 0

\* C7: on the same position with the same ordering, the COUNT that
\* alpha_beta_search leaves is at most the COUNT that minimax_search leaves.
C7_FewerNodes ==
  (mm # <<>> /\ ab # <<>>) => ab[1].nodes <= mm[1].nodes

\* alpha_beta_search ran after minimax_search, from a COUNT that was not 0,
\* and left a smaller one.
C7_Witness ==
  /\ mm # <<>> /\ ab # <<>>
  /\ COUNT = ab[1].nodes
  /\ COUNT < mm[1].nodes
  /\ ordering = "natural"

\* alpha_beta_search on the empty board under the natural ordering.
NaturalOpening == alpha_beta_search(empty_board, "x", "natural", 0)

\* C8: on the empty board alpha_beta_search visits strictly fewer nodes with
\* the priority ordering than with the natural ordering, and returns the
\* same value.
C8_PriorityPrunesMore ==
  (board = empty_board /\ ab # <<>> /\ ordering = "priority") =>
     /\ ab[1].nodes < NaturalOpening.COUNT
     /\ ab[1].value = NaturalOpening.value

\* alpha_beta_search has run on the empty board under the priority ordering.
C8_Witness ==
  /\ board = empty_board
  /\ ab # <<>>
  /\ mm = <<>>
  /\ ordering = "priority"
  /\ COUNT = ab[1].nodes

\* C9: result called on an occupied cell fails with IllegalMove: no board
\* comes back and the cell keeps its mark.
C9_IllegalMoveFails ==
  [][\A q \in Players, a \in Cells :
       (ResultCall(q, a) /\ board[a] # " ") =>
          (raised' = "IllegalMove" /\ board' = board)]_vars

\* C10: a search called on a decided board (won or full) fails with
\* NoLegalAction instead of returning a result.
C10_TerminalFails ==
  (Terminal(board) /\ Returned # {}) => raised = "NoLegalAction"

\* ------------------------------------------------------------ the state model
\* The eight lines of the board, as sets of cells.
Lines ==
  {{0, 1, 2}, {3, 4, 5}, {6, 7, 8}, {0, 3, 6}, {1, 4, 7}, {2, 5, 8},
   {0, 4, 8}, {2, 4, 6}}

HasLine(b, m) == \E L \in Lines : \A i \in L : b[i] = m

\* C13: on every board reachable by legal alternating play, check_win answers
\* x (o) exactly when some line holds three x (o), full board included;
\* otherwise d exactly when no cell is empty, and n otherwise.
C13_CheckWin ==
  LET w == check_win(board)
      line == HasLine(board, "x") \/ HasLine(board, "o")
  IN /\ (w = "x") <=> HasLine(board, "x")
     /\ (w = "o") <=> HasLine(board, "o")
     /\ (w = "d") <=> (~line /\ Empties(board) = 0)
     /\ (w = "n") <=> (~line /\ Empties(board) > 0)

\* A full board whose last mark completed a line of x.
C13_Witness ==
  /\ Empties(board) = 0
  /\ HasLine(board, "x")
  /\ check_win(board) = "x"

\* C14: for every board and either perspective q, utility agrees with
\* check_win: +1 iff the winner is q, -1 iff it is other(q), 0 iff draw, None
\* iff the game goes on; on a terminal board the two perspectives are opposite.
C14_UtilityAgrees ==
  LET w == check_win(board) IN
  /\ \A q \in Players :
       LET u == utility(board, q) IN
       /\ (u = 1) <=> (w = q)
       /\ (u = 0 - 1) <=> (w = other(q))
       /\ (u = 0) <=> (w = "d")
       /\ (u = None) <=> (w = "n")
  /\ (w # "n") => utility(board, "x") = 0 - utility(board, "o")

\* A board o has won, scored from x's side.
C14_Witness ==
  /\ check_win(board) = "o"
  /\ utility(board, "x") = 0 - 1
  /\ utility(board, "o") = 1

\* C15: result on an empty cell returns a board equal to state everywhere
\* but at action, where it holds the player's mark, and the list handed in
\* is unchanged.
C15_ResultFrame ==
  [][\A q \in Players, a \in Cells :
       (board[a] = " " /\ passed' # <<>> /\ ResultCall(q, a)) =>
          /\ board'[a] = q
          /\ \A i \in Cells \ {a} : board'[i] = board[i]
          /\ passed' = <<board>>]_vars

\* result has filled an empty cell for a caller that kept the list.
C15_Witness ==
  /\ passed # <<>>
  /\ stdout = ""
  /\ Empties(passed[1]) = Empties(board) + 1
  /\ Empties(board) = 5

\* C19: the natural get_actions returns exactly the indices of the empty
\* cells, each once, in ascending order.
C19_NaturalActions ==
  LET acts == get_actions_natural(board) IN
  /\ {acts[i] : i \in DOMAIN acts} = {c \in Cells : board[c] = " "}
  /\ Len(acts) = Empties(board)
  /\ \A i \in 1 .. Len(acts) - 1 : acts[i] < acts[i + 1]

\* A board with marks on 0 and 4 and seven empty cells, 1 the first of them.
C19_Witness ==
  /\ board[0] = "x"
  /\ board[4] = "o"
  /\ Empties(board) = 7
  /\ get_actions_natural(board)[1] = 1

\* The class of a cell: centre, corner, edge.
CellClass(c) == IF c = 4 THEN 2 ELSE IF c \in {0, 2, 6, 8} THEN 1 ELSE 0

\* C20: the priority get_actions returns a permutation of the empty cells
\* with the centre first, then the corners, then the edges, descending
\* within corners and within edges; on the empty board it is
\* [4, 8, 6, 2, 0, 7, 5, 3, 1].
C20_PriorityActions ==
  LET acts == get_actions_priority(board) IN
  /\ {acts[i] : i \in DOMAIN acts} = {c \in Cells : board[c] = " "}
  /\ Len(acts) = Empties(board)
  /\ \A i \in 1 .. Len(acts) - 1 :
       \/ CellClass(acts[i]) > CellClass(acts[i + 1])
       \/ /\ CellClass(acts[i]) = CellClass(acts[i + 1])
          /\ acts[i] > acts[i + 1]
  /\ board = empty_board => acts = <<4, 8, 6, 2, 0, 7, 5, 3, 1>>

\* A board with the centre taken and two corners and two edges among its
\* empty cells.
C20_Witness ==
  /\ board[4] # " "
  /\ Empties(board) = 5
  /\ {0, 8, 1, 7} \subseteq {c \in Cells : board[c] = " "}
  /\ get_actions_priority(board)[1] = 8

\* C17: minimax_search and alpha_beta_search return move None exactly when
\* the board is decided; on any other board the move is an empty cell of it
\* and the value is -1, 0 or 1, never an infinity.
C17_MoveAbsentIffTerminal ==
  \A r \in Returned :
     /\ (r.move = None) <=> Terminal(board)
     /\ ~Terminal(board) =>
          /\ r.move \in Cells
          /\ board[r.move] = " "
          /\ r.value \in {0 - 1, 0, 1}

\* Both searches have returned on a position the side to move loses.
C17_Witness ==
  /\ ~Terminal(board)
  /\ mm # <<>> /\ ab # <<>>
  /\ mm[1].value = 0 - 1
  /\ mm[1].move \in Cells
  /\ ab[1].move \in Cells

\* C18: whatever COUNT held before and whatever the ordering, minimax_search
\* leaves in COUNT the number of nodes of the full game tree below the board;
\* from the empty board that is 549946.
C18_CountIsTreeSize ==
  mm # <<>> =>
     /\ mm[1].nodes = TreeSize[Code(board)]
     /\ board = empty_board => mm[1].nodes = 549946

\* minimax_search has run on the empty board after alpha_beta_search had
\* left its own count in COUNT.
C18_Witness ==
  /\ board = empty_board
  /\ ab # <<>> /\ ab[1].nodes > 0
  /\ mm # <<>>
  /\ COUNT = mm[1].nodes

\* C12: with alpha_beta_player as one agent of play and any legal moves of
\* the other, no game is won by the other side: its tally stays 0.
C12_AgentNeverLoses ==
  agent \in Players =>
     /\ results[other(agent)] = 0
     /\ check_win(board) # other(agent)

\* alpha_beta_player, playing o, has won one game and drawn another.
C12_Witness ==
  /\ agent = "o"
  /\ results["o"] = 1
  /\ results["d"] = 1

\* C11: UCT_depth1 called with a budget N <= 0 is rejected with InvalidBudget
\* and returns no action.
C11_BudgetRejected ==
  (uct # <<>> /\ uct[1].N <= 0 /\ uct[1].pc # "loop") =>
     /\ raised = "InvalidBudget"
     /\ uct[1].action = None

\* C16: when minimax_search, alpha_beta_search, playout or UCT_depth1 returns,
\* the board the caller handed in holds what it held before the call.
C16_BoardUntouched ==
  [][(mm' # mm \/ ab' # ab \/ uct' # uct) => board' = board]_vars

\* UCT_depth1 has returned after MaxBudget playouts on a position with
\* MaxUCTEmpty empty cells.
C16_Witness ==
  /\ uct # <<>>
  /\ uct[1].pc = "returned"
  /\ uct[1].n_parent = MaxBudget
  /\ Empties(board) = MaxUCTEmpty
  /\ ~Terminal(board)

\* ------------------------------------------------------- the searches, again
\* C24: on every reachable undecided board, with the same get_actions
\* ordering, alpha_beta_search returns the same move as minimax_search.
C24_SameMove ==
  (mm # <<>> /\ ab # <<>> /\ ~Terminal(board)) => ab[1].move = mm[1].move

\* Both searches have run on a position where pruning saved nodes and
\* several moves reach the best value.
C24_Witness ==
  /\ mm # <<>> /\ ab # <<>>
  /\ ~Terminal(board)
  /\ ab[1].nodes < mm[1].nodes
  /\ \E a \in Cells :
       /\ board[a] = " "
       /\ a # mm[1].move
       /\ ValueFor(result(board, player, a), player) = mm[1].value

\* The first action of acts, in order, whose successor (mover's mark placed)
\* has the value target, values being seen from q.
FirstWithValue(b, mover, q, acts, target) ==
  LET k == CHOOSE i \in DOMAIN acts :
             /\ ValueFor(result(b, mover, acts[i]), q) = target
             /\ \A j \in 1 .. i - 1 :
                  ValueFor(result(b, mover, acts[j]), q) # target
  IN acts[k]

SuccessorValues(b, mover, q) ==
  {ValueFor(result(b, mover, a), q) : a \in {c \in Cells : b[c] = " "}}

\* C25: minimax_search returns the first action, in get_actions order, among
\* those whose successor has the largest value, and min_value keeps the first
\* among those with the smallest; a later action of equal value never
\* replaces it, not even one that wins at once.
C25_FirstBestKept ==
  (mm # <<>> /\ ~Terminal(board)) =>
     LET acts == get_actions(board, ordering) IN
     /\ mm[1].move =
          FirstWithValue(board, player, player, acts,
                         SetMax(SuccessorValues(board, player, player)))
     /\ min_value(board, other(player), ordering).move =
          FirstWithValue(board, player, other(player), acts,
                         SetMin(SuccessorValues(board, player, other(player))))

\* minimax_search under the natural ordering has answered 2 on the board
\* where 8 wins at once.
C25_Witness ==
  /\ board = Win8Board
  /\ ordering = "natural"
  /\ mm # <<>>
  /\ mm[1].move = 2
  /\ check_win(result(board, "x", 8)) = "x"
  /\ check_win(result(board, "x", 2)) = "n"

\* What a fail-soft answer r for the window (alpha, beta) says about the
\* exact value V of the state searched.
WindowSound(r, V, alpha, beta) ==
  /\ alpha < beta
  /\ (alpha < r /\ r < beta) => r = V
  /\ (r <= alpha) => V <= r
  /\ (r >= beta) => V >= r

RECURSIVE max_ab_sound(_, _, _, _, _)
RECURSIVE min_ab_sound(_, _, _, _, _)
RECURSIVE max_loop_ab_sound(_, _, _, _, _, _, _, _)
RECURSIVE min_loop_ab_sound(_, _, _, _, _, _, _, _)

\* The calls alpha_beta_search makes, walked again in the order and with the
\* windows of max_value_ab / min_value_ab: each is entered with a sound
\* window and so is every call below it.
max_loop_ab_sound(state, p, ord, acts, i, v, alpha, beta) ==
  IF i > Len(acts) THEN TRUE
  ELSE LET child == result(state, p, acts[i])
           r == min_value_ab(child, p, alpha, beta, ord)
           better == MaxImprovesAB(r.v, v)
           v1 == IF better THEN r.v ELSE v
           alpha1 == IF better THEN Max2(alpha, v1) ELSE alpha
       IN /\ min_ab_sound(child, p, alpha, beta, ord)
          /\ \/ BetaCut(v1, beta)
             \/ max_loop_ab_sound(state, p, ord, acts, i + 1, v1, alpha1, beta)

max_ab_sound(state, p, alpha, beta, ord) ==
  /\ WindowSound(max_value_ab(state, p, alpha, beta, ord).v,
                 ValueFor(state, p), alpha, beta)
  /\ \/ utility(state, p) # None
     \/ max_loop_ab_sound(state, p, ord, get_actions(state, ord), 1, NegInf,
                          alpha, beta)

min_loop_ab_sound(state, p, ord, acts, i, v, alpha, beta) ==
  IF i > Len(acts) THEN TRUE
  ELSE LET child == result(state, other(p), acts[i])
           r == max_value_ab(child, p, alpha, beta, ord)
           better == MinImprovesAB(r.v, v)
           v1 == IF better THEN r.v ELSE v
           beta1 == IF better THEN Min2(beta, v1) ELSE beta
       IN /\ max_ab_sound(child, p, alpha, beta, ord)
          /\ \/ AlphaCut(v1, alpha)
             \/ min_loop_ab_sound(state, p, ord, acts, i + 1, v1, alpha, beta1)

min_ab_sound(state, p, alpha, beta, ord) ==
  /\ WindowSound(min_value_ab(state, p, alpha, beta, ord).v,
                 ValueFor(state, p), alpha, beta)
  /\ \/ utility(state, p) # None
     \/ min_loop_ab_sound(state, p, ord, get_actions(state, ord), 1, PosInf,
                          alpha, beta)

\* C23: every call max_value_ab / min_value_ab made during alpha_beta_search
\* is entered with alpha < beta, and its answer r relates to the exact
\* minimax value V of its state: alpha < r < beta gives r = V, r <= alpha
\* gives V <= r, r >= beta gives V >= r.
C23_WindowsSound ==
  (ab # <<>>) => max_ab_sound(board, player, NegInf, PosInf, ordering)

\* alpha_beta_search has run on a board whose first action is the best one,
\* and a later sibling, searched with alpha at the root value, answered with
\* a bound strictly above its exact value.
C23_Witness ==
  /\ ab # <<>>
  /\ ~Terminal(board)
  /\ ab[1].move = get_actions(board, ordering)[1]
  /\ \E a \in Cells :
       /\ board[a] = " "
       /\ a # ab[1].move
       /\ LET child == result(board, player, a)
              r == min_value_ab(child, player, ab[1].value, PosInf, ordering).v
          IN r <= ab[1].value /\ ValueFor(child, player) < r

\* ------------------------------------------------------ UCT_depth1, again
UCTRunning == uct # <<>> /\ uct[1].pc = "loop"
UCTReturned == uct # <<>> /\ uct[1].pc = "returned"

\* C21: UCT_depth1 returns the action with the largest visit count n at the
\* end of the loop, the first such action in get_actions order on a tie,
\* whatever the mean utilities u / n are.
C21_MostVisitedReturned ==
  UCTReturned =>
    \E k \in DOMAIN uct[1].actions :
      /\ uct[1].action = uct[1].actions[k]
      /\ \A j \in DOMAIN uct[1].n : uct[1].n[j] <= uct[1].n[k]
      /\ \A j \in 1 .. k - 1 : uct[1].n[j] < uct[1].n[k]

\* UCT_depth1 has returned the most visited action while another action,
\* visited less often, has a strictly higher mean utility.
C21_Witness ==
  /\ UCTReturned
  /\ \E k, j \in DOMAIN uct[1].actions :
       /\ uct[1].action = uct[1].actions[k]
       /\ uct[1].n[j] > 0
       /\ uct[1].n[j] < uct[1].n[k]
       /\ uct[1].u[j] * uct[1].n[k] > uct[1].u[k] * uct[1].n[j]

\* C26: with k legal actions and N >= k, the first k iterations select
\* actions[0], ..., actions[k-1] in that order, each exactly once, whatever
\* the playouts return: after i <= k iterations the first i actions have one
\* visit each and the others none.
C26_EachActionOnceFirst ==
  (uct # <<>> /\ uct[1].N >= Len(uct[1].actions)
              /\ uct[1].i <= Len(uct[1].actions)) =>
     \A j \in DOMAIN uct[1].n :
       uct[1].n[j] = (IF j <= uct[1].i THEN 1 ELSE 0)

\* Three legal actions have had their first playout, with different results.
C26_Witness ==
  /\ UCTRunning
  /\ Len(uct[1].actions) = MaxUCTEmpty
  /\ uct[1].N > MaxUCTEmpty
  /\ uct[1].i = MaxUCTEmpty
  /\ uct[1].u[1] < uct[1].u[2]
  /\ uct[1].u[3] < uct[1].u[2]

RECURSIVE SeqSum(_)
SeqSum(s) == IF s = <<>> THEN 0 ELSE s[1] + SeqSum(Tail(s))

\* C27: in UCT_depth1, after the i-th iteration sum(n) = n_parent = i, and
\* at return sum(n) = N.
C27_VisitCounts ==
  (uct # <<>> /\ uct[1].pc \in {"loop", "returned"}) =>
     /\ SeqSum(uct[1].n) = uct[1].n_parent
     /\ uct[1].n_parent = uct[1].i
     /\ (uct[1].pc = "returned") => SeqSum(uct[1].n) = uct[1].N

\* C27, the step: an iteration adds 1 to exactly one n[a] and lowers none.
C27_OneVisitPerIteration ==
  [][(uct # <<>> /\ uct' # <<>> /\ uct'[1].i # uct[1].i) =>
       /\ uct'[1].i = uct[1].i + 1
       /\ \E a \in DOMAIN uct[1].n :
            uct'[1].n = [uct[1].n EXCEPT ![a] = @ + 1]]_vars

\* C27 for the budgets range(N) can run: at return sum(n) = N when N >= 0.
C27_VisitCountsNonNegative ==
  (uct # <<>> /\ uct[1].pc \in {"loop", "returned"}) =>
     /\ SeqSum(uct[1].n) = uct[1].n_parent
     /\ uct[1].n_parent = uct[1].i
     /\ (uct[1].pc = "returned" /\ uct[1].N >= 0) =>
           SeqSum(uct[1].n) = uct[1].N

\* C28: whenever UCT_depth1 recomputes UCB1[a], n_parent >= 1 and
\* 1 <= n[a] <= n_parent, so that neither the division nor the logarithm nor
\* the square root fails; UCB1[a] is +infinity exactly while n[a] = 0.
C28_RecomputeSafe ==
  (uct # <<>>) =>
     /\ raised \notin {"ZeroDivisionError", "ValueError: math domain error"}
     /\ \A a \in DOMAIN uct[1].n :
          /\ (uct[1].UCB1[a] = UCB1Inf) <=> (uct[1].n[a] = 0)
          /\ Recomputes(uct[1].n[a]) =>
               /\ uct[1].n_parent >= 1
               /\ 1 <= uct[1].n[a]
               /\ uct[1].n[a] <= uct[1].n_parent

\* In the middle of a run one action has a finite score after several visits
\* and another is still unvisited at +infinity.
C28_Witness ==
  /\ UCTRunning
  /\ \E a, c \in DOMAIN uct[1].n :
       /\ uct[1].n[a] = 1 /\ uct[1].UCB1[a] < UCB1Inf
       /\ uct[1].n[c] = 0 /\ uct[1].UCB1[c] = UCB1Inf
  /\ \E a \in DOMAIN uct[1].n : uct[1].n[a] > 1 \/ uct[1].n_parent > 1

\* C30: when the budget N is at most the number of legal actions (N = 0
\* included), UCT_depth1 returns actions[0], whatever the playouts return.
C30_SmallBudgetFirstAction ==
  (uct # <<>> /\ uct[1].pc # "loop" /\ uct[1].actions # <<>>
              /\ uct[1].N <= Len(uct[1].actions)) =>
     /\ uct[1].pc = "returned"
     /\ uct[1].action = uct[1].actions[1]

\* UCT_depth1 has returned actions[0] after one playout for each of three
\* actions, a later action having the better total.
C30_Witness ==
  /\ UCTReturned
  /\ Len(uct[1].actions) = MaxUCTEmpty
  /\ uct[1].N = MaxUCTEmpty
  /\ uct[1].action = uct[1].actions[1]
  /\ uct[1].u[1] < uct[1].u[3]

\* ------------------------------------------------------------ playout, again
PlayoutRunning == po # <<>> /\ po[1].pc = "loop"
PlayoutReturned == po # <<>> /\ po[1].pc = "returned"

\* The cells where two boards differ.
Changed(b1, b2) == {c \in Cells : b1[c] # b2[c]}

\* What a call of playout on an undecided board has done so far: no more
\* marks than the board had empty cells, written on empty cells only, the
\* symbols alternating from player on action; and what it returned, if it
\* has: the utility, for player, of the decided board it reached.
PlayoutSound(f) ==
  /\ f.pc # "raised"
  /\ Len(f.marks) <= Empties(f.start)
  /\ Cardinality(Changed(f.start, f.state)) = Len(f.marks)
  /\ \A c \in Changed(f.start, f.state) : f.start[c] = " "
  /\ f.state[f.action] = f.player
  /\ \A j \in DOMAIN f.marks :
       f.marks[j] = (IF j % 2 = 1 THEN f.player ELSE other(f.player))
  /\ \A q \in Players :
       CountOf(f.state, q) - CountOf(f.start, q) =
         Cardinality({j \in DOMAIN f.marks : f.marks[j] = q})
  /\ (f.pc = "returned") =>
       /\ Terminal(f.state)
       /\ f.u \in {0 - 1, 0, 1}
       /\ f.u = (IF HasLine(f.state, f.player) THEN 1
                 ELSE IF HasLine(f.state, other(f.player)) THEN 0 - 1
                 ELSE 0)
       /\ f.u \in playout(f.start, f.action, f.player)

\* C29: playout(state, action, player) on a non-terminal state with e empty
\* cells and a legal action always terminates, after placing at most e marks,
\* alternating player, other(player), ... from player on action, and returns
\* the utility in {-1, 0, +1}, for player, of the terminal board reached.
C29_PlayoutTerminates ==
  /\ [](po # <<>> /\ ~Terminal(po[1].start) => PlayoutSound(po[1]))
  /\ (PlayoutRunning /\ ~Terminal(po[1].start)) ~> PlayoutReturned

\* A playout from a board with MaxPlayoutEmpty empty cells has filled the
\* board, both symbols having moved twice, and returned a draw.
C29_Witness ==
  /\ PlayoutReturned
  /\ ~Terminal(po[1].start)
  /\ Empties(po[1].start) = MaxPlayoutEmpty
  /\ Len(po[1].marks) = MaxPlayoutEmpty
  /\ po[1].u = 0
====
